---- MODULE Spec2Model ----
(***************************************************************************)
(* A model of the travel journal's journey animator:                       *)
(*   - Home (src/app/page.tsx): the trip list, the cursor                  *)
(*     (currentTripIndex), autoplay and the add-trip modal flag;           *)
(*   - LeafletMap (src/unnamed/part_000): leg resolution                   *)
(*     (getCurrentJourneyPath), viewport framing (getMapBounds), the view  *)
(*     effect and the animation effect with its timers and frame           *)
(*     callbacks.                                                          *)
(*                                                                         *)
(* Coordinates are integers counting half ten-thousandths of a degree      *)
(* (1 degree = 20000 units).  Every input coordinate is an even number of  *)
(* units (four decimals), so the midpoint (a + b) / 2 is exact.            *)
(*                                                                         *)
(* Time is kept relative: a run stores the milliseconds elapsed since its  *)
(* startTime (Date.now() - startTime), a timer stores the milliseconds     *)
(* left before it is due.  Indices are 0-based as in the source; At(s, i)  *)
(* reads s[i].                                                             *)
(***************************************************************************)
EXTENDS Integers, Sequences, FiniteSets, Bags, TLC

\* ------------------------------------------------------------------ bounds
\* Longest journey of the resolver specification (SpecResolve).
MaxLen == 2
\* Longest trip list of the page (Spec): handleAddTrip is disabled beyond it.
MaxTrips == 3
\* Trips added over one behaviour (each add draws a fresh id).
MaxAdds == 1
\* Superseded animation runs that may still hold a callback at one time: a
\* render that would leave more of them is disabled.
MaxStale == 2
\* How many time steps Date.now() may fall behind a run's startTime.
MaxSetBack == 1
\* Changes of a location field's text over one behaviour.
MaxTyped == 2

\* ------------------------------------------------------------ coordinates
E4(n) == 2 * n
Degrees(d) == 20000 * d
Abs(x) == IF x < 0 THEN 0 - x ELSE x
Min2(a, b) == IF a < b THEN a ELSE b
Max2(a, b) == IF a > b THEN a ELSE b

Loc(lat, lng) == [latitude |-> lat, longitude |-> lng]

\* The places of the sample data.
LosAngeles == Loc(E4(340522), E4(0 - 1182437))
LasVegas == Loc(E4(361699), E4(0 - 1151398))
Houston == Loc(E4(297604), E4(0 - 953698))

sampleTrips ==
  << [id |-> 1, type |-> "ROUND_TRIP", departureLocation |-> LosAngeles,
      arrivalLocation |-> LasVegas, order |-> 1],
     [id |-> 2, type |-> "ONE_WAY", departureLocation |-> LosAngeles,
      arrivalLocation |-> Houston, order |-> 2] >>

TripTypes == {"ROUND_TRIP", "ONE_WAY"}

\* ------------------------------------------------- JavaScript array reads
\* s[i] is defined (not undefined) exactly for 0 <= i < s.length.
HasIndex(s, i) == i \in 0..(Len(s) - 1)
At(s, i) == s[i + 1]

\* Array.prototype.slice(0, end): a negative end counts from the length.
Slice0(s, end) ==
  LET n == Len(s)
      e == IF end < 0 THEN Max2(n + end, 0) ELSE Min2(end, n)
  IN  SubSeq(s, 1, e)

\* ------------------------------------------------------------ LeafletMap
visibleTripsOf(t, i) == Slice0(t, i + 1)

Coords(loc) == <<loc.latitude, loc.longitude>>

\* A resolver that chains a one-way leg off the previous trip's arrival
\* whatever the previous trip's type is.
getCurrentJourneyPath_PrevArrival(t, i) ==
  IF ~HasIndex(t, i) THEN << >>
  ELSE LET cur == At(t, i) IN
    IF cur.type = "ROUND_TRIP" \/ i = 0
      THEN << Coords(cur.departureLocation), Coords(cur.arrivalLocation) >>
      ELSE << Coords(At(t, i - 1).arrivalLocation), Coords(cur.arrivalLocation) >>

\* A resolver that chains a one-way leg off the previous trip's departure
\* whatever the previous trip's type is.
getCurrentJourneyPath_PrevDeparture(t, i) ==
  IF ~HasIndex(t, i) THEN << >>
  ELSE LET cur == At(t, i) IN
    IF cur.type = "ROUND_TRIP" \/ i = 0
      THEN << Coords(cur.departureLocation), Coords(cur.arrivalLocation) >>
      ELSE << Coords(At(t, i - 1).departureLocation), Coords(cur.arrivalLocation) >>

\* A resolver that chains every leg at cursor > 0, round trips included.
getCurrentJourneyPath_ChainAll(t, i) ==
  IF ~HasIndex(t, i) THEN << >>
  ELSE LET cur == At(t, i) IN
    IF i = 0
      THEN << Coords(cur.departureLocation), Coords(cur.arrivalLocation) >>
      ELSE LET prev == At(t, i - 1)
               startLocation == IF prev.type = "ROUND_TRIP"
                                  THEN prev.departureLocation
                                  ELSE prev.arrivalLocation
           IN << Coords(startLocation), Coords(cur.arrivalLocation) >>

\* A resolver that moves a cursor outside the journey onto its nearest trip.
getCurrentJourneyPath_Clamp(t, i) ==
  IF Len(t) = 0 THEN << >>
  ELSE LET cur == At(t, Max2(0, Min2(i, Len(t) - 1)))
       IN << Coords(cur.departureLocation), Coords(cur.arrivalLocation) >>

\* A resolver that answers a zero-length leg at the origin when the cursor
\* designates no trip.
getCurrentJourneyPath_DefaultLeg(t, i) ==
  IF ~HasIndex(t, i) THEN << <<0, 0>>, <<0, 0>> >>
  ELSE LET cur == At(t, i)
       IN << Coords(cur.departureLocation), Coords(cur.arrivalLocation) >>

\* getCurrentJourneyPath: [] or [start, end], each [latitude, longitude].
getCurrentJourneyPath(t, i) ==
  IF ~HasIndex(t, i) THEN << >>
  ELSE LET cur == At(t, i) IN
    IF cur.type = "ROUND_TRIP"
      THEN << Coords(cur.departureLocation), Coords(cur.arrivalLocation) >>
      ELSE IF i = 0
        THEN << Coords(cur.departureLocation), Coords(cur.arrivalLocation) >>
        ELSE LET visible == visibleTripsOf(t, i) IN
          IF ~HasIndex(visible, i - 1) THEN << >>
          ELSE LET previousTrip == At(visible, i - 1)
                   startLocation == IF previousTrip.type = "ROUND_TRIP"
                                      THEN previousTrip.departureLocation
                                      ELSE previousTrip.arrivalLocation
               IN << Coords(startLocation), Coords(cur.arrivalLocation) >>

\* The zoom ladder with >= in place of >.
zoomForDiff_NonStrict(maxDiff) ==
  IF maxDiff >= Degrees(50) THEN 3
  ELSE IF maxDiff >= Degrees(20) THEN 4
  ELSE IF maxDiff >= Degrees(10) THEN 5
  ELSE IF maxDiff >= Degrees(5) THEN 6
  ELSE IF maxDiff >= Degrees(2) THEN 7
  ELSE 8

\* The zoom ladder with its two widest rungs exchanged.
zoomForDiff_Swapped(maxDiff) ==
  IF maxDiff > Degrees(50) THEN 4
  ELSE IF maxDiff > Degrees(20) THEN 3
  ELSE IF maxDiff > Degrees(10) THEN 5
  ELSE IF maxDiff > Degrees(5) THEN 6
  ELSE IF maxDiff > Degrees(2) THEN 7
  ELSE 8

\* let zoom = 8; if (maxDiff > 50) zoom = 3; else if ... (getMapBounds)
zoomForDiff(maxDiff) ==
  IF maxDiff > Degrees(50) THEN 3
  ELSE IF maxDiff > Degrees(20) THEN 4
  ELSE IF maxDiff > Degrees(10) THEN 5
  ELSE IF maxDiff > Degrees(5) THEN 6
  ELSE IF maxDiff > Degrees(2) THEN 7
  ELSE 8

\* A default view on the origin of the coordinates.
DefaultBounds_Origin == [center |-> <<0, 0>>, zoom |-> 4]

DefaultBounds == [center |-> <<E4(398283), E4(0 - 985795)>>, zoom |-> 4]

\* A getMapBounds that centres a resolved leg on its start point.
getMapBounds_CenterOnStart(t, i) ==
  LET visible == visibleTripsOf(t, i)
      path == getCurrentJourneyPath(t, i)
  IN
  IF Len(visible) = 0 THEN DefaultBounds
  ELSE IF Len(path) = 0
    THEN [center |-> Coords(visible[1].departureLocation), zoom |-> 8]
    ELSE [center |-> path[1],
          zoom |-> zoomForDiff(Max2(Abs(path[1][1] - path[2][1]),
                                    Abs(path[1][2] - path[2][2])))]

\* getMapBounds, given the render's visibleTrips and currentJourneyPath.
getMapBounds(t, i) ==
  LET visible == visibleTripsOf(t, i)
      path == getCurrentJourneyPath(t, i)
  IN
  IF Len(visible) = 0 THEN DefaultBounds
  ELSE IF Len(path) = 0
    THEN [center |-> Coords(visible[1].departureLocation), zoom |-> 8]
    ELSE LET startCoords == path[1]
             endCoords == path[2]
             minLat == Min2(startCoords[1], endCoords[1])
             maxLat == Max2(startCoords[1], endCoords[1])
             minLng == Min2(startCoords[2], endCoords[2])
             maxLng == Max2(startCoords[2], endCoords[2])
             centerLat == (minLat + maxLat) \div 2
             centerLng == (minLng + maxLng) \div 2
             latDiff == maxLat - minLat
             lngDiff == maxLng - minLng
             maxDiff == Max2(latDiff, lngDiff)
         IN [center |-> <<centerLat, centerLng>>, zoom |-> zoomForDiff(maxDiff)]


\* ------------------------------------------------------ program constants
animationDuration == 2500
startDelay == 100
settleDelay == 800
autoplayInterval == 2000
debounceDelay == 300
hookSettleDelay == 500

\* Time advances in these amounts (milliseconds) between two callbacks.
TimeSteps == {animationDuration \div 2}

\* No timer (a cleared interval, a callback that needs no delay).
NoTimer == 0 - 1

\* -------------------------------------------------------------- variables
VARIABLES
  trips,              \* Home: useState(sampleTrips)
  currentTripIndex,   \* Home: useState(0)
  isPlaying,          \* Home: useState(false)
  isAddTripModalOpen, \* Home: useState(false)
  interval,           \* Home: ms left of the autoplay setInterval, or NoTimer
  added,              \* trips added so far (each got an id of its own)
  formData,           \* AddTripModal: useState({title: '', ...})
  query,              \* AddTripModal: departureQuery and arrivalQuery, by field
  suggestions,        \* AddTripModal: departure- and arrivalSuggestions, by
                      \* field: << >> ([]), or the query whose results they are
  isSearching,        \* AddTripModal: isSearchingDeparture / -Arrival, by field
  debounceTimeout,    \* AddTripModal: << >>, or <<timer>>: the one pending
                      \* timer of debounceTimeout.current
  requests,           \* the bag of searchCities calls awaiting their response
  alerted,            \* window.alert has been called by handleSubmit
  typed,              \* changes of a location field's text so far
  L,                  \* LeafletMap: the leaflet module has been loaded
  mapInstance,        \* LeafletMap: the MapContainer's map has been captured
  currentJourneyPath, \* LeafletMap: the last render's currentJourneyPath
  center,             \* LeafletMap: the last render's center
  zoom,               \* LeafletMap: the last render's zoom
  mapView,            \* the view of the map: << >> (no map yet) or <<bounds>>
  current,            \* << >>, or <<run>>: the run of the animation effect
                      \* whose cleanup function React holds (LeafletMap's
                      \* effect; the hook's effect in SpecHook)
  stale               \* the bag of runs whose cleanup has run and that still
                      \* have a callback pending or a layer on the map

modalVars == <<formData, query, suggestions, isSearching, debounceTimeout, requests,
               alerted, typed>>
homeVars == <<trips, currentTripIndex, isPlaying, isAddTripModalOpen, interval, added,
              modalVars>>
mapVars == <<L, mapInstance, currentJourneyPath, center, zoom, mapView, current, stale>>
vars == <<homeVars, mapVars>>

\* ------------------------------------------- LeafletMap: animation effect
RECURSIVE GCD(_, _)
GCD(a, b) == IF b = 0 THEN a ELSE GCD(b, a % b)

\* Math.atan2(y, x): the angle of the direction (x, y), 0 for y = 0 and x >= 0
\* (atan2(0, 0) is 0).  An angle is named by its direction in lowest terms,
\* <<y, x>>; the factor 180 / Math.PI maps angles one to one.
Atan2(y, x) ==
  IF y = 0 /\ x >= 0 THEN << 0, 1 >>
  ELSE LET g == GCD(Abs(y), Abs(x)) IN << y \div g, x \div g >>

\* A rotation with the two differences exchanged.
calculateRotation_LatFirst(start, end) ==
  LET deltaLng == end[2] - start[2]
      deltaLat == end[1] - start[1]
  IN Atan2(deltaLat, deltaLng)

\* calculateRotation: Math.atan2(deltaLng, deltaLat) * (180 / Math.PI).
calculateRotation(start, end) ==
  LET deltaLng == end[2] - start[2]
      deltaLat == end[1] - start[1]
  IN Atan2(deltaLng, deltaLat)

\* A run is the closure of one execution of the effect's body: its endpoints,
\* Date.now() - startTime (elapsed), animationProgress in milliseconds of the
\* duration (progress = animationProgress / animationDuration), its one pending
\* callback ("start": the 100 ms timer; "frame": requestAnimationFrame;
\* "settle": the 800 ms timer; "none") with the timer's remaining delay,
\* whether the map has its polyline and its marker, and the coordinates the
\* polyline and the marker were last given.
NewRun(path) ==
  [startCoords |-> path[1], endCoords |-> path[2],
   elapsed |-> 0, animationProgress |-> 0,
   pending |-> "start", delay |-> startDelay,
   polylineOnMap |-> TRUE, markerOnMap |-> TRUE,
   polylineLatLngs |-> << path[1], path[1] >>, markerLatLng |-> path[1],
   rotation |-> calculateRotation(path[1], path[2])]

\* The image of bag B under the function f, copies added up.
MapBag(B, f) ==
  [y \in {f[x] : x \in DOMAIN B} |->
     BagCardinality([x \in {z \in DOMAIN B : f[z] = y} |-> B[x]])]

\* A superseded run is kept while it can still act or show.
Retained(run) == run.pending # "none" \/ run.polylineOnMap \/ run.markerOnMap
Prune(B) == [x \in {z \in DOMAIN B : Retained(z)} |-> B[x]]

\* A cleanup that removes the polyline and leaves the marker on the map.
EffectCleanup_KeepMarker(run) == [run EXCEPT !.polylineOnMap = FALSE]

\* The effect's cleanup function: remove the run's polyline and marker if
\* the map has them.  It cancels no timer and no frame callback.
EffectCleanup(run) == [run EXCEPT !.polylineOnMap = FALSE, !.markerOnMap = FALSE]

\* "Clear any existing journey animations": eachLayer removes the layers whose
\* options.className is 'animated-journey', which only the polylines carry.
ClearAnimatedJourney(run) == [run EXCEPT !.polylineOnMap = FALSE]

\* The guard of the animation effect's body.
AnimationGuard(t, i, l, m) ==
  m /\ l /\ Len(getCurrentJourneyPath(t, i)) > 1 /\ HasIndex(t, i)

\* getCurrentJourneyPath() returns a new array on every render, and React
\* compares dependencies by identity (Object.is).
NewArrayIdentity == TRUE

\* [currentTripIndex, mapInstance, L, currentJourneyPath, currentTrip]: whether
\* a dependency of the animation effect differs from the previous render's.
AnimationDepsChanged(t, i, l, m) ==
  i # currentTripIndex \/ m # mapInstance \/ l # L \/ NewArrayIdentity

\* One render of LeafletMap with props (t, i) and state (l, m), followed by its
\* effects.  tripsChanged: the trips prop is a new array.
LeafletMapRender(t, i, l, m, tripsChanged) ==
  LET path == getCurrentJourneyPath(t, i)
      b == getMapBounds(t, i)
      rerun == AnimationDepsChanged(t, i, l, m)
      \* React runs the previous effect's cleanup, if it returned one
      cleaned == IF rerun /\ current # << >>
                   THEN Prune(SetToBag({EffectCleanup(current[1])}))
                   ELSE EmptyBag
      stale1 == stale (+) cleaned
      start == rerun /\ AnimationGuard(t, i, l, m)
      viewDeps == i # currentTripIndex \/ m # mapInstance \/ l # L \/ tripsChanged
  IN
  /\ L' = l
  /\ mapInstance' = m
  /\ currentJourneyPath' = path
  /\ center' = b.center
  /\ zoom' = b.zoom
  \* MapContainer mounts with the render's center and zoom once L is loaded;
  \* afterwards only the view effect's setView moves the map.
  /\ mapView' = IF viewDeps /\ m /\ l /\ Len(t) > 0 THEN << b >>
                ELSE IF l /\ ~L THEN << b >>
                ELSE mapView
  /\ stale' = IF start THEN Prune(MapBag(stale1, [run \in DOMAIN stale1 |->
                                                   ClearAnimatedJourney(run)])) ELSE stale1
  /\ BagCardinality(stale') <= MaxStale
  /\ current' = IF start THEN << NewRun(path) >>
                ELSE IF rerun THEN << >>
                ELSE current

\* setupLeaflet resolves: setL(leaflet).
SetupLeaflet ==
  /\ ~L
  /\ UNCHANGED homeVars
  /\ LeafletMapRender(trips, currentTripIndex, TRUE, mapInstance, FALSE)

\* MapContainer's ref callback: setMapInstance(map), once.
SetMapInstance ==
  /\ L /\ ~mapInstance
  /\ UNCHANGED homeVars
  /\ LeafletMapRender(trips, currentTripIndex, L, TRUE, FALSE)

\* An interpolation that measures progress from the end point.
interpolateCoords_FromEnd(start, end, progress) ==
  << end[1] + ((start[1] - end[1]) * progress) \div animationDuration,
     end[2] + ((start[2] - end[2]) * progress) \div animationDuration >>

\* interpolateCoords, with progress in milliseconds of the duration:
\* start + (end - start) * progress.
interpolateCoords(start, end, progress) ==
  << start[1] + ((end[1] - start[1]) * progress) \div animationDuration,
     start[2] + ((end[2] - start[2]) * progress) \div animationDuration >>

\* An animate() that arms the settle timer on its first call, whatever the
\* progress is.
animate_EarlySettle(run) ==
  LET progress == Min2(run.elapsed, animationDuration)
      currentEndCoord == interpolateCoords(run.startCoords, run.endCoords, progress)
  IN
  [run EXCEPT !.animationProgress = progress,
              !.polylineLatLngs = << run.startCoords, currentEndCoord >>,
              !.markerLatLng = currentEndCoord,
              !.pending = "settle",
              !.delay = settleDelay]

\* An animate() that requests a frame after every call, at progress 1 too.
animate_FrameForever(run) ==
  LET progress == Min2(run.elapsed, animationDuration)
      currentEndCoord == interpolateCoords(run.startCoords, run.endCoords, progress)
  IN
  [run EXCEPT !.animationProgress = progress,
              !.polylineLatLngs = << run.startCoords, currentEndCoord >>,
              !.markerLatLng = currentEndCoord,
              !.pending = "frame",
              !.delay = NoTimer]

\* animate(): progress = Math.min(elapsed / animationDuration, 1) (no lower
\* clamp), the polyline and the marker moved to the interpolated point, then
\* the next frame or the settle timer.  The polyline and marker objects are
\* updated whether or not they are still on the map.
animate(run) ==
  LET progress == Min2(run.elapsed, animationDuration)
      currentEndCoord == interpolateCoords(run.startCoords, run.endCoords, progress)
  IN
  [run EXCEPT !.animationProgress = progress,
              !.polylineLatLngs = << run.startCoords, currentEndCoord >>,
              !.markerLatLng = currentEndCoord,
              !.pending = IF progress < animationDuration THEN "frame" ELSE "settle",
              !.delay = IF progress < animationDuration THEN NoTimer ELSE settleDelay]

\* The settle timer's callback: remove the marker if the map still has it.
removeMarker(run) ==
  [run EXCEPT !.markerOnMap = FALSE, !.pending = "none", !.delay = NoTimer]

\* Whether a callback of the run is due, and the run after it has fired:
\* setTimeout(() => animate(), 100), requestAnimationFrame(animate), or the
\* 800 ms timer.
Due(run) ==
  \/ run.pending = "start" /\ run.delay = 0
  \/ run.pending = "frame"
  \/ run.pending = "settle" /\ run.delay = 0

Fired(run) == IF run.pending = "settle" THEN removeMarker(run) ELSE animate(run)

\* A callback of the current run fires.
CallbackFires ==
  /\ current # << >>
  /\ Due(current[1])
  /\ current' = << Fired(current[1]) >>
  /\ UNCHANGED <<homeVars, L, mapInstance, currentJourneyPath, center, zoom,
                 mapView, stale>>

\* A callback of a superseded run fires: nothing cancelled it, and it runs the
\* same code.
StaleCallbackFires(run) ==
  /\ BagIn(run, stale)
  /\ Due(run)
  /\ stale' = Prune((stale (-) SetToBag({run})) (+) SetToBag({Fired(run)}))
  /\ UNCHANGED <<homeVars, L, mapInstance, currentJourneyPath, center, zoom,
                 mapView, current>>

\* ------------------ useAnimatedJourneyLine (AnimatedJourneyLine.tsx)
\* The hook's animate(): the same steps, with a settle timer of 500 ms whose
\* callback removes the marker.
hookAnimate(run) ==
  LET progress == Min2(run.elapsed, animationDuration)
      currentEndCoord == interpolateCoords(run.startCoords, run.endCoords, progress)
  IN
  [run EXCEPT !.animationProgress = progress,
              !.polylineLatLngs = << run.startCoords, currentEndCoord >>,
              !.markerLatLng = currentEndCoord,
              !.pending = IF progress < animationDuration THEN "frame" ELSE "settle",
              !.delay = IF progress < animationDuration THEN NoTimer ELSE hookSettleDelay]

\* The hook's effect body: polyline and marker at the start point, then
\* animate() at once (no start timer, no rotation).
NewHookRun(path) ==
  hookAnimate([startCoords |-> path[1], endCoords |-> path[2],
               elapsed |-> 0, animationProgress |-> 0,
               pending |-> "none", delay |-> NoTimer,
               polylineOnMap |-> TRUE, markerOnMap |-> TRUE,
               polylineLatLngs |-> << path[1], path[1] >>, markerLatLng |-> path[1]])

HookFired(run) == IF run.pending = "settle" THEN removeMarker(run) ELSE hookAnimate(run)

\* The caller renders the hook with isActive and other coordinates: React
\* runs the previous effect's cleanup (it removes the two layers and cancels
\* nothing), then the effect body.
HookActivate(path) ==
  /\ current = << >> \/ path # currentJourneyPath
  /\ currentJourneyPath' = path
  /\ stale' = IF current = << >> THEN stale
              ELSE stale (+) Prune(SetToBag({EffectCleanup(current[1])}))
  /\ BagCardinality(stale') <= MaxStale
  /\ current' = << NewHookRun(path) >>
  /\ UNCHANGED <<homeVars, L, mapInstance, center, zoom, mapView>>

\* The caller renders the hook with isActive false: the cleanup only.
HookDeactivate ==
  /\ current # << >>
  /\ stale' = stale (+) Prune(SetToBag({EffectCleanup(current[1])}))
  /\ BagCardinality(stale') <= MaxStale
  /\ current' = << >>
  /\ UNCHANGED <<homeVars, L, mapInstance, currentJourneyPath, center, zoom, mapView>>

HookCallbackFires ==
  /\ current # << >>
  /\ Due(current[1])
  /\ current' = << HookFired(current[1]) >>
  /\ UNCHANGED <<homeVars, L, mapInstance, currentJourneyPath, center, zoom,
                 mapView, stale>>

StaleHookCallbackFires(run) ==
  /\ BagIn(run, stale)
  /\ Due(run)
  /\ stale' = Prune((stale (-) SetToBag({run})) (+) SetToBag({HookFired(run)}))
  /\ UNCHANGED <<homeVars, L, mapInstance, currentJourneyPath, center, zoom,
                 mapView, current>>

\* ------------------------------------------------------------------ time
Countdown(d, step) == IF d = NoTimer THEN NoTimer ELSE Max2(d - step, 0)

\* Date.now() - startTime matters until progress has reached 1.
TimePasses(run, step) ==
  IF run.pending \in {"start", "frame"}
    THEN [run EXCEPT !.elapsed = Min2(@ + step, animationDuration),
                     !.delay = Countdown(@, step)]
    ELSE [run EXCEPT !.delay = Countdown(@, step)]

\* Date.now() advances by step milliseconds.
Tick(step) ==
  /\ current' = IF current = << >> THEN << >> ELSE << TimePasses(current[1], step) >>
  /\ stale' = MapBag(stale, [run \in DOMAIN stale |-> TimePasses(run, step)])
  /\ interval' = Countdown(interval, step)
  /\ debounceTimeout' = IF debounceTimeout = << >> THEN << >>
                        ELSE << [debounceTimeout[1] EXCEPT !.delay = Countdown(@, step)] >>
  /\ <<current', stale', interval', debounceTimeout'>>
       # <<current, stale, interval, debounceTimeout>>
  /\ UNCHANGED <<trips, currentTripIndex, isPlaying, isAddTripModalOpen, added,
                 formData, query, suggestions, isSearching, requests, alerted, typed,
                 L, mapInstance, currentJourneyPath, center, zoom, mapView>>

\* Date.now() is the wall clock, which the system may set back (a clock
\* synchronisation, a change of the system time); setTimeout and
\* requestAnimationFrame do not follow it.
SetBack(run, step) ==
  IF run.pending \in {"start", "frame"}
    THEN [run EXCEPT !.elapsed = @ - step]
    ELSE run

ClockSetBack(step) ==
  /\ current # << >>
  /\ current[1].pending \in {"start", "frame"}
  /\ \A run \in {current[1]} \cup BagToSet(stale) :
       SetBack(run, step).elapsed >= 0 - MaxSetBack * step
  /\ current' = << SetBack(current[1], step) >>
  /\ stale' = MapBag(stale, [run \in DOMAIN stale |-> SetBack(run, step)])
  /\ UNCHANGED <<homeVars, L, mapInstance, currentJourneyPath, center, zoom, mapView>>

\* ----------------------------------------------------------- AddTripModal
Fields == {"departureLocation", "arrivalLocation"}

\* A location of the form: the city's name and its coordinates.
EmptyLocation == [city |-> "", latitude |-> 0, longitude |-> 0]

EmptyForm ==
  [title |-> "", type |-> "ROUND_TRIP",
   departureLocation |-> EmptyLocation, arrivalLocation |-> EmptyLocation,
   startDate |-> "", endDate |-> "", travelers |-> << >>]

InitModal ==
  /\ formData = EmptyForm
  /\ query = [f \in Fields |-> << >>]
  /\ suggestions = [f \in Fields |-> << >>]
  /\ isSearching = [f \in Fields |-> FALSE]
  /\ debounceTimeout = << >>
  /\ requests = EmptyBag
  /\ alerted = FALSE
  /\ typed = 0

\* handleClose, before onClose(): the form and the autocomplete state are
\* reset and the pending debounce timer is cleared.  A searchCities call that
\* is under way is not touched.
ResetModal ==
  /\ formData' = EmptyForm
  /\ query' = [f \in Fields |-> << >>]
  /\ suggestions' = [f \in Fields |-> << >>]
  /\ isSearching' = [f \in Fields |-> FALSE]
  /\ debounceTimeout' = << >>
  /\ UNCHANGED <<requests, alerted, typed>>

\* What the user may have in a location field: texts of 0 to 3 characters.
Queries == { << >>, <<"l">>, <<"l", "a">>, <<"l", "a", "s">> }

\* searchCities(query): nothing for a blank or one-character query, for a
\* response that is not ok and for a failed fetch; otherwise the cities the
\* service finds for that query, here one result that names the query.
searchCities(value, ok) ==
  IF Len(value) < 2 \/ ~ok THEN << >> ELSE << [name |-> value] >>

\* onChange of a location input: the query is set, the one shared timer of
\* debounceTimeout.current is cleared whichever field armed it, and a text
\* of two characters or more arms it anew for this field.
handleLocationInputChange(field, value) ==
  /\ isAddTripModalOpen
  /\ typed < MaxTyped
  /\ value # query[field]
  /\ typed' = typed + 1
  /\ query' = [query EXCEPT ![field] = value]
  /\ IF Len(value) >= 2
       THEN /\ isSearching' = [isSearching EXCEPT ![field] = TRUE]
            /\ debounceTimeout' = << [field |-> field, value |-> value,
                                       delay |-> debounceDelay] >>
            /\ suggestions' = suggestions
       ELSE /\ suggestions' = [suggestions EXCEPT ![field] = << >>]
            /\ isSearching' = [isSearching EXCEPT ![field] = FALSE]
            /\ debounceTimeout' = << >>
  /\ UNCHANGED <<trips, currentTripIndex, isPlaying, isAddTripModalOpen, interval,
                 added, formData, requests, alerted, mapVars>>

\* The debounce timer's callback up to its await: searchCities(value) is
\* called and the request is on its way.
DebounceFires ==
  /\ debounceTimeout # << >>
  /\ debounceTimeout[1].delay = 0
  /\ requests' = requests (+) SetToBag({[field |-> debounceTimeout[1].field,
                                          value |-> debounceTimeout[1].value]})
  /\ debounceTimeout' = << >>
  /\ UNCHANGED <<trips, currentTripIndex, isPlaying, isAddTripModalOpen, interval,
                 added, formData, query, suggestions, isSearching, alerted, typed,
                 mapVars>>

\* The rest of the callback, when searchCities resolves: the suggestions of
\* the request's field are set and its searching flag is lowered.  Requests
\* are answered in any order, and after the modal was closed too.
ResponseArrives(request, ok) ==
  /\ BagIn(request, requests)
  /\ requests' = requests (-) SetToBag({request})
  /\ suggestions' = [suggestions EXCEPT ![request.field] = searchCities(request.value, ok)]
  /\ isSearching' = [isSearching EXCEPT ![request.field] = FALSE]
  /\ UNCHANGED <<trips, currentTripIndex, isPlaying, isAddTripModalOpen, interval,
                 added, formData, query, debounceTimeout, alerted, typed, mapVars>>

\* The text inputs of the form and what the user may leave in them.
TextInputs == {"title", "startDate", "endDate"}
Texts == {"", "x"}

\* The checkboxes of the "Travelers" group.
travelerOptions == {"You", "Celia"}

\* Suggestions the user may click on.
CityResults ==
  { [name |-> "Houston", lat |-> Houston.latitude, lng |-> Houston.longitude],
    [name |-> "Las Vegas", lat |-> LasVegas.latitude, lng |-> LasVegas.longitude] }

\* onChange of the title and date inputs:
\* setFormData(prev => ({ ...prev, [input]: e.target.value }))
SetFormText(input, value) ==
  /\ isAddTripModalOpen
  /\ formData[input] # value
  /\ formData' = [formData EXCEPT ![input] = value]
  /\ UNCHANGED <<trips, currentTripIndex, isPlaying, isAddTripModalOpen, interval,
                 added, query, suggestions, isSearching, debounceTimeout, requests,
                 alerted, typed, mapVars>>

\* onChange of the trip type radio buttons.
SetTripType(type) ==
  /\ isAddTripModalOpen
  /\ formData.type # type
  /\ formData' = [formData EXCEPT !.type = type]
  /\ UNCHANGED <<trips, currentTripIndex, isPlaying, isAddTripModalOpen, interval,
                 added, query, suggestions, isSearching, debounceTimeout, requests,
                 alerted, typed, mapVars>>

\* A click on a suggestion: the location of the form gets the city and its
\* coordinates, the input shows the city's name (a text of one symbol here).
handleLocationSelect(field, city) ==
  /\ isAddTripModalOpen
  /\ formData[field].city # city.name
  /\ formData' = [formData EXCEPT ![field] = [city |-> city.name, latitude |-> city.lat,
                                               longitude |-> city.lng]]
  /\ query' = [query EXCEPT ![field] = << city.name >>]
  /\ UNCHANGED <<trips, currentTripIndex, isPlaying, isAddTripModalOpen, interval,
                 added, suggestions, isSearching, debounceTimeout, requests,
                 alerted, typed, mapVars>>

\* prev.travelers.includes(traveler) ? prev.travelers.filter(t => t !== traveler)
\*                                    : [...prev.travelers, traveler]
toggleTraveler(traveler) ==
  /\ isAddTripModalOpen
  /\ formData' = [formData EXCEPT !.travelers =
                    IF \E k \in 1..Len(@) : @[k] = traveler
                      THEN SelectSeq(@, LAMBDA t : t # traveler)
                      ELSE Append(@, traveler)]
  /\ UNCHANGED <<trips, currentTripIndex, isPlaying, isAddTripModalOpen, interval,
                 added, query, suggestions, isSearching, debounceTimeout, requests,
                 alerted, typed, mapVars>>

\* A validation that forgets the travelers.
Rejected_IgnoreTravelers(form) ==
  \/ form.title = ""
  \/ form.startDate = ""
  \/ form.endDate = ""
  \/ form.departureLocation.city = ""
  \/ form.arrivalLocation.city = ""

\* handleSubmit's "Basic validation": the condition of its if.
Rejected(form) ==
  \/ form.title = ""
  \/ form.startDate = ""
  \/ form.endDate = ""
  \/ form.departureLocation.city = ""
  \/ form.arrivalLocation.city = ""
  \/ Len(form.travelers) = 0

\* ------------------------------------------------------------------ Home
\* What the add-trip form may hold when it is submitted.
NewTripData ==
  { [type |-> "ONE_WAY", departureLocation |-> Houston, arrivalLocation |-> Houston],
    [type |-> "ROUND_TRIP", departureLocation |-> LasVegas, arrivalLocation |-> Houston],
    [type |-> "ONE_WAY", departureLocation |-> LasVegas, arrivalLocation |-> LosAngeles] }

\* `trip-${Date.now()}`: the form needs two city searches, each debounced by
\* 300 ms, so two adds never share a millisecond; ids 1 and 2 are the samples'.
NewTripId == Len(sampleTrips) + added + 1

\* A state update of Home, the render it causes and the effects of that render,
\* as one step: every handler acts on the state of the latest render.
\* React re-renders nothing when no state value changed.
Commit(t, i, p, o, tripsChanged) ==
  /\ <<t, i, p, o>> # <<trips, currentTripIndex, isPlaying, isAddTripModalOpen>>
  /\ trips' = t
  /\ currentTripIndex' = i
  /\ isPlaying' = p
  /\ isAddTripModalOpen' = o
  \* autoplay effect, deps [isPlaying, currentTripIndex, trips.length]:
  \* clearInterval, then setInterval if playing below the last index
  /\ interval' = IF <<p, i, Len(t)>> # <<isPlaying, currentTripIndex, Len(trips)>>
                   THEN IF p /\ i < Len(t) - 1 THEN autoplayInterval ELSE NoTimer
                   ELSE interval
  /\ LeafletMapRender(t, i, L, mapInstance, tripsChanged)

\* The autoplay interval's callback.
IntervalFires ==
  /\ interval = 0
  /\ UNCHANGED <<added, modalVars>>
  /\ IF currentTripIndex >= Len(trips) - 1
       THEN Commit(trips, currentTripIndex, FALSE, isAddTripModalOpen, FALSE)
       ELSE Commit(trips, currentTripIndex + 1, isPlaying, isAddTripModalOpen, FALSE)

\* The next button, or ArrowRight.
handleNext ==
  /\ currentTripIndex < Len(trips) - 1
  /\ UNCHANGED <<added, modalVars>>
  /\ Commit(trips, currentTripIndex + 1, isPlaying, isAddTripModalOpen, FALSE)

\* The previous button, or ArrowLeft.
handlePrevious ==
  /\ currentTripIndex > 0
  /\ UNCHANGED <<added, modalVars>>
  /\ Commit(trips, currentTripIndex - 1, isPlaying, isAddTripModalOpen, FALSE)

\* The modal's backdrop covers the page: the page's buttons take no click
\* while the modal is open.
handlePlayPause ==
  /\ ~isAddTripModalOpen
  /\ Len(trips) # 0
  /\ UNCHANGED <<added, modalVars>>
  /\ Commit(trips, currentTripIndex, ~isPlaying, isAddTripModalOpen, FALSE)

handleReset ==
  /\ ~isAddTripModalOpen
  /\ currentTripIndex # 0
  /\ UNCHANGED <<added, modalVars>>
  /\ Commit(trips, 0, FALSE, isAddTripModalOpen, FALSE)

\* A click on an entry of the "All Trips" list.
SelectTrip(index) ==
  /\ ~isAddTripModalOpen
  /\ HasIndex(trips, index)
  /\ UNCHANGED <<added, modalVars>>
  /\ Commit(trips, index, isPlaying, isAddTripModalOpen, FALSE)

OpenAddTripModal ==
  /\ ~isAddTripModalOpen
  /\ UNCHANGED <<added, modalVars>>
  /\ Commit(trips, currentTripIndex, isPlaying, TRUE, FALSE)

\* The modal's handleClose (close button, backdrop, Escape): onClose().
CloseAddTripModal ==
  /\ isAddTripModalOpen
  /\ added' = added
  /\ ResetModal
  /\ Commit(trips, currentTripIndex, isPlaying, FALSE, FALSE)

\* A list that takes the new trip in front.
AppendTrip_Prepend(prev, newTrip) == << newTrip >> \o prev

\* setTrips(prev => [...prev, newTrip])
AppendTrip(prev, newTrip) == Append(prev, newTrip)

\* The modal's handleSubmit with a valid form: onAddTrip(formData), then
\* handleClose().
handleAddTrip(newTripData) ==
  /\ isAddTripModalOpen
  /\ Len(trips) < MaxTrips
  /\ added < MaxAdds
  /\ added' = added + 1
  /\ ResetModal
  /\ LET newTrip == [id |-> NewTripId, type |-> newTripData.type,
                     departureLocation |-> newTripData.departureLocation,
                     arrivalLocation |-> newTripData.arrivalLocation,
                     order |-> Len(trips) + 1]
     IN Commit(AppendTrip(trips, newTrip), Len(trips), isPlaying, FALSE, TRUE)

\* A filter that drops the last trip, whatever the id.
Filter_DropLast(s, tripId) == SubSeq(s, 1, Len(s) - 1)

\* onSubmit of the form: a rejected form raises the alert and nothing else
\* happens; an accepted one goes to onAddTrip, then handleClose().
handleSubmit ==
  /\ isAddTripModalOpen
  /\ IF Rejected(formData)
       THEN /\ alerted' = TRUE
            /\ UNCHANGED <<trips, currentTripIndex, isPlaying, isAddTripModalOpen, interval,
                           added, formData, query, suggestions, isSearching,
                           debounceTimeout, requests, typed, mapVars>>
       ELSE handleAddTrip([type |-> formData.type,
                           departureLocation |-> Loc(formData.departureLocation.latitude,
                                                     formData.departureLocation.longitude),
                           arrivalLocation |-> Loc(formData.arrivalLocation.latitude,
                                                   formData.arrivalLocation.longitude)])

\* prev.filter(trip => trip.id !== tripId)
Filter(s, tripId) == SelectSeq(s, LAMBDA trip : trip.id # tripId)

\* A map that leaves the order numbers as they were.
Renumber_Keep(s) == s

\* filtered.map((trip, index) => ({...trip, order: index + 1}))
Renumber(s) == [k \in 1..Len(s) |-> [s[k] EXCEPT !.order = k]]

\* The cursor after a delete that never adjusts it.
CursorAfterDelete_Keep(i, n) == i

\* if (currentTripIndex >= trips.length - 1)
\*   setCurrentTripIndex(Math.max(0, trips.length - 2))
CursorAfterDelete(i, n) == IF i >= n - 1 THEN Max2(0, n - 2) ELSE i

\* The current trip card's delete button, confirmed:
\* handleDeleteTrip(trips[currentTripIndex].id).
handleDeleteTrip ==
  /\ ~isAddTripModalOpen
  /\ HasIndex(trips, currentTripIndex)
  /\ UNCHANGED <<added, modalVars>>
  /\ LET tripId == At(trips, currentTripIndex).id IN
       Commit(Renumber(Filter(trips, tripId)),
              CursorAfterDelete(currentTripIndex, Len(trips)),
              isPlaying, isAddTripModalOpen, TRUE)

\* ------------------------------------------------------- specifications
InitHome ==
  /\ trips = sampleTrips
  /\ currentTripIndex = 0
  /\ isPlaying = FALSE
  /\ isAddTripModalOpen = FALSE
  /\ interval = NoTimer
  /\ added = 0
  /\ InitModal

\* The first render of LeafletMap with props (t, i): nothing is loaded yet.
InitMap(t, i) ==
  /\ L = FALSE
  /\ mapInstance = FALSE
  /\ currentJourneyPath = getCurrentJourneyPath(t, i)
  /\ center = getMapBounds(t, i).center
  /\ zoom = getMapBounds(t, i).zoom
  /\ mapView = << >>
  /\ current = << >>
  /\ stale = EmptyBag

Init == InitHome /\ InitMap(sampleTrips, 0)

\* The page before the map library has loaded: Home, and LeafletMap's renders.
Next ==
  \/ handleNext
  \/ handlePrevious
  \/ handlePlayPause
  \/ handleReset
  \/ \E index \in 0..(MaxTrips - 1) : SelectTrip(index)
  \/ OpenAddTripModal
  \/ CloseAddTripModal
  \/ \E newTripData \in NewTripData : handleAddTrip(newTripData)
  \/ handleDeleteTrip
  \/ IntervalFires
  \/ \E step \in TimeSteps : Tick(step)

Spec == Init /\ [][Next]_vars

\* Autoplay left alone: the user edits and navigates while nothing plays,
\* presses play with the cursor below the last index, and then only watches.
\* The interval's callback and the passing of time are not held back.
NextAutoplay ==
  \/ ~isPlaying /\ handleNext
  \/ ~isPlaying /\ handlePrevious
  \/ ~isPlaying /\ handleReset
  \/ ~isPlaying /\ \E index \in 0..(MaxTrips - 1) : SelectTrip(index)
  \/ ~isPlaying /\ OpenAddTripModal
  \/ ~isPlaying /\ CloseAddTripModal
  \/ ~isPlaying /\ \E newTripData \in NewTripData : handleAddTrip(newTripData)
  \/ ~isPlaying /\ handleDeleteTrip
  \/ ~isPlaying /\ currentTripIndex < Len(trips) - 1 /\ handlePlayPause
  \/ IntervalFires
  \/ \E step \in TimeSteps : Tick(step)

SpecAutoplay ==
  /\ Init
  /\ [][NextAutoplay]_vars
  /\ WF_vars(IntervalFires)
  /\ WF_vars(\E step \in TimeSteps : Tick(step))

\* The add-trip modal's city search: the user opens and closes the modal and
\* types in the two location fields, timers fire and responses arrive.
NextSearch ==
  \/ OpenAddTripModal
  \/ CloseAddTripModal
  \/ \E field \in Fields, value \in Queries : handleLocationInputChange(field, value)
  \/ DebounceFires
  \/ \E request \in BagToSet(requests), ok \in BOOLEAN : ResponseArrives(request, ok)
  \/ \E step \in TimeSteps : Tick(step)

SpecSearch == Init /\ [][NextSearch]_vars

\* The same with time that passes, due timers that fire and requests that are
\* answered.
SpecSearchLive ==
  /\ Init
  /\ [][NextSearch]_vars
  /\ WF_vars(DebounceFires)
  /\ WF_vars(\E request \in BagToSet(requests), ok \in BOOLEAN : ResponseArrives(request, ok))
  /\ WF_vars(\E step \in TimeSteps : Tick(step))

\* The add-trip modal's form: the user opens and closes the modal, fills the
\* form in any order and submits it at any time.
NextForm ==
  \/ OpenAddTripModal
  \/ CloseAddTripModal
  \/ \E input \in TextInputs, value \in Texts : SetFormText(input, value)
  \/ \E type \in TripTypes : SetTripType(type)
  \/ \E field \in Fields, city \in CityResults : handleLocationSelect(field, city)
  \/ \E traveler \in travelerOptions : toggleTraveler(traveler)
  \/ handleSubmit

SpecForm == Init /\ [][NextForm]_vars

\* The map with the page's navigation and re-renders: the trips are the sample
\* data or what deleting leaves of them.
NextMap ==
  \/ SetupLeaflet
  \/ SetMapInstance
  \/ CallbackFires
  \/ \E run \in BagToSet(stale) : StaleCallbackFires(run)
  \/ \E step \in TimeSteps : Tick(step)
  \/ handleNext
  \/ handlePrevious
  \/ handlePlayPause
  \/ handleReset
  \/ \E index \in 0..(MaxTrips - 1) : SelectTrip(index)
  \/ OpenAddTripModal
  \/ CloseAddTripModal
  \/ handleDeleteTrip
  \/ IntervalFires

SpecMap == Init /\ [][NextMap]_vars

\* ------------------------------------- LeafletMap under arbitrary props
\* Places of the journeys with several trips.
Places == {LosAngeles, LasVegas, Houston}

\* Spreads around every rung of the zoom ladder: below, on and just above it,
\* and the specification's examples (0, 3, 6, 15, 25, 60 degrees).
ZoomDiffs ==
  {0, Degrees(60)}
    \cup {Degrees(d) : d \in {2, 5, 10, 20, 50}}
    \cup {Degrees(d) + E4(1) : d \in {2, 5, 10, 20, 50}}
    \cup {Degrees(d) : d \in {3, 6, 15, 25}}

Origin == Loc(0, 0)
ZoomPlaces ==
  {Loc(d, 0) : d \in ZoomDiffs} \cup {Loc(0, d) : d \in ZoomDiffs}
    \cup {Loc(0 - d, E4(1)) : d \in ZoomDiffs}

Trip(k, type, dep, arr) ==
  [id |-> k, type |-> type, departureLocation |-> dep, arrivalLocation |-> arr,
   order |-> k]

\* Journeys of one trip: between Places, and from or to Origin.
OneTripJourneys ==
  { << Trip(1, type, dep, arr) >> : type \in TripTypes, dep \in Places, arr \in Places }
    \cup { << Trip(1, type, Origin, p) >> : type \in TripTypes, p \in ZoomPlaces }
    \cup { << Trip(1, type, p, Origin) >> : type \in TripTypes, p \in ZoomPlaces }

\* Journeys of up to MaxLen trips between Places, and the journeys of one trip.
Journeys ==
  UNION { { [k \in 1..n |-> Trip(k, f[k][1], f[k][2], f[k][3])] :
              f \in [1..n -> TripTypes \X Places \X Places] } : n \in 0..MaxLen }
    \cup OneTripJourneys

\* Any integer cursor a parent may pass, valid or not.
Cursors == (0 - 2)..MaxLen

InitResolve ==
  /\ trips \in Journeys
  /\ currentTripIndex \in Cursors
  /\ isPlaying = FALSE
  /\ isAddTripModalOpen = FALSE
  /\ interval = NoTimer
  /\ added = 0
  /\ InitModal
  /\ InitMap(trips, currentTripIndex)

\* The parent passes another currentTripIndex.
SetCursorProp(i) ==
  /\ i # currentTripIndex
  /\ trips' = trips
  /\ currentTripIndex' = i
  /\ UNCHANGED <<isPlaying, isAddTripModalOpen, interval, added, modalVars>>
  /\ LeafletMapRender(trips, i, L, mapInstance, FALSE)

\* The parent passes another journey of one trip in place of a journey of one
\* trip.
SetTripsProp(t) ==
  /\ Len(trips) = 1
  /\ t # trips
  /\ trips' = t
  /\ currentTripIndex' = currentTripIndex
  /\ UNCHANGED <<isPlaying, isAddTripModalOpen, interval, added, modalVars>>
  /\ LeafletMapRender(t, currentTripIndex, L, mapInstance, TRUE)

NextResolve ==
  \/ \E i \in Cursors : SetCursorProp(i)
  \/ \E t \in (IF Len(trips) = 1 THEN OneTripJourneys ELSE {}) : SetTripsProp(t)

SpecResolve == InitResolve /\ [][NextResolve]_vars

\* --------------------------------------- the hook as the animation driver
\* Legs a caller passes to the hook.
HookLegs ==
  { << Coords(LosAngeles), Coords(LasVegas) >>, << Coords(LosAngeles), Coords(Houston) >> }

\* The hook is given a map, and window.L is loaded.
InitHook ==
  /\ InitHome
  /\ L = TRUE
  /\ mapInstance = TRUE
  /\ currentJourneyPath = << >>
  /\ center = DefaultBounds.center
  /\ zoom = DefaultBounds.zoom
  /\ mapView = << >>
  /\ current = << >>
  /\ stale = EmptyBag

NextHook ==
  \/ \E path \in HookLegs : HookActivate(path)
  \/ HookDeactivate
  \/ HookCallbackFires
  \/ \E run \in BagToSet(stale) : StaleHookCallbackFires(run)
  \/ \E step \in TimeSteps : Tick(step)

SpecHook == InitHook /\ [][NextHook]_vars

\* ------------------------------ the animation driver under fixed props
\* Journeys of the driver: none, the sample data, one trip between Places
\* (its two places may be the same one), and two one-way trips that arrive at
\* the same place.
DriverJourneys ==
  { << >>, sampleTrips,
    << Trip(1, "ONE_WAY", LosAngeles, Houston), Trip(2, "ONE_WAY", LasVegas, Houston) >> }
    \cup { << Trip(1, type, dep, arr) >> : type \in TripTypes, dep \in Places, arr \in Places }

InitDriver ==
  /\ trips \in DriverJourneys
  /\ currentTripIndex \in Cursors
  /\ isPlaying = FALSE
  /\ isAddTripModalOpen = FALSE
  /\ interval = NoTimer
  /\ added = 0
  /\ InitModal
  /\ InitMap(trips, currentTripIndex)

\* The map loads and the run of the rendered leg plays, on a wall clock that
\* may be set back.
NextDriver ==
  \/ SetupLeaflet
  \/ SetMapInstance
  \/ CallbackFires
  \/ \E step \in TimeSteps : Tick(step)
  \/ \E step \in TimeSteps : ClockSetBack(step)

SpecDriver == InitDriver /\ [][NextDriver]_vars

\* The same on a clock that only advances, with every due callback delivered
\* and time passing: the browser runs due timers and frame callbacks.
NextDriverLive ==
  \/ SetupLeaflet
  \/ SetMapInstance
  \/ CallbackFires
  \/ \E step \in TimeSteps : Tick(step)

SpecDriverLive ==
  /\ InitDriver
  /\ [][NextDriverLive]_vars
  /\ WF_vars(CallbackFires)
  /\ WF_vars(\E step \in TimeSteps : Tick(step))


\* ================================================================ claims
\* The spread of a leg: max(|latA - latB|, |lngA - lngB|).
LegSpread(path) ==
  Max2(Abs(path[1][1] - path[2][1]), Abs(path[1][2] - path[2][2]))

CursorOnTrip == HasIndex(trips, currentTripIndex)
CurrentTrip == At(trips, currentTripIndex)
PreviousTrip == At(trips, currentTripIndex - 1)

OneWayAfter(type) ==
  /\ CursorOnTrip
  /\ currentTripIndex > 0
  /\ CurrentTrip.type = "ONE_WAY"
  /\ PreviousTrip.type = type

\* C1: a one-way trip at cursor > 0 that follows a round trip is framed from
\* the round trip's departure point to its own arrival point; its own
\* departure point is not used.
C1_OneWayAfterRoundTrip ==
  OneWayAfter("ROUND_TRIP") =>
    currentJourneyPath = << Coords(PreviousTrip.departureLocation),
                            Coords(CurrentTrip.arrivalLocation) >>

C1_Witness ==
  /\ OneWayAfter("ROUND_TRIP")
  /\ PreviousTrip.departureLocation # PreviousTrip.arrivalLocation
  /\ PreviousTrip.departureLocation # CurrentTrip.departureLocation
  /\ currentJourneyPath[1] = Coords(PreviousTrip.departureLocation)

\* C2: a one-way trip at cursor > 0 that follows a one-way trip is framed from
\* the previous trip's arrival point to its own arrival point.
C2_OneWayAfterOneWay ==
  OneWayAfter("ONE_WAY") =>
    currentJourneyPath = << Coords(PreviousTrip.arrivalLocation),
                            Coords(CurrentTrip.arrivalLocation) >>

C2_Witness ==
  /\ OneWayAfter("ONE_WAY")
  /\ PreviousTrip.arrivalLocation # PreviousTrip.departureLocation
  /\ PreviousTrip.arrivalLocation # CurrentTrip.departureLocation
  /\ currentJourneyPath[1] = Coords(PreviousTrip.arrivalLocation)

\* C3: for a round trip at any cursor, and for any trip at cursor 0, the leg
\* is the trip's own departure -> arrival, whatever the other trips are.
C3_OwnLeg ==
  (CursorOnTrip /\ (CurrentTrip.type = "ROUND_TRIP" \/ currentTripIndex = 0)) =>
    currentJourneyPath = << Coords(CurrentTrip.departureLocation),
                            Coords(CurrentTrip.arrivalLocation) >>

C3_Witness ==
  /\ CursorOnTrip
  /\ currentTripIndex > 0
  /\ CurrentTrip.type = "ROUND_TRIP"
  /\ PreviousTrip.departureLocation # CurrentTrip.departureLocation
  /\ PreviousTrip.arrivalLocation # CurrentTrip.departureLocation
  /\ currentJourneyPath[1] = Coords(CurrentTrip.departureLocation)

\* C4 (as claimed): once a run has been superseded, none of its callbacks (the
\* start timer, a frame, the settle timer) is still pending.
C4_SupersededRunsCancelled ==
  \A run \in BagToSet(stale) : run.pending = "none"

\* C5 (as claimed): a callback of a superseded run that fires is a no-op: it
\* only goes away, scheduling no frame and no timer.
C5_StaleCallbackNoOp ==
  [][\A run \in BagToSet(stale) :
       StaleCallbackFires(run) => stale' = stale (-) SetToBag({run})]_vars

OnMap(run, kind) == IF kind = "marker" THEN run.markerOnMap ELSE run.polylineOnMap

\* How many layers of a kind the map holds, over all runs.
LayersOnMap(kind) ==
  (IF current # << >> /\ OnMap(current[1], kind) THEN 1 ELSE 0)
    + BagCardinality([run \in {x \in BagToSet(stale) : OnMap(x, kind)} |-> stale[run]])

\* C6: the map holds at most one transient marker and at most one animated
\* polyline, and none that a superseded run created.
C6_SingleActiveAnimation ==
  /\ LayersOnMap("marker") <= 1
  /\ LayersOnMap("polyline") <= 1
  /\ \A run \in BagToSet(stale) : ~run.markerOnMap /\ ~run.polylineOnMap

\* A run was superseded in mid-flight (a frame of it is pending) and the new
\* run's marker and polyline are on the map.
C6_Witness ==
  /\ current # << >>
  /\ current[1].markerOnMap /\ current[1].polylineOnMap
  /\ \E run \in BagToSet(stale) : run.pending = "frame"

\* A step put a freshly started run in place of the current one.
RunRestarted ==
  /\ current # << >>
  /\ current' # << >>
  /\ current'[1].pending = "start" /\ current'[1].delay = startDelay
  /\ \/ current' # current
     \/ BagCardinality(stale') > BagCardinality(stale)

\* C7 (as claimed): a step that leaves the cursor and the leg's endpoints as
\* they were neither tears the current run down nor starts a new one.
C7_NoRestartWithoutChange ==
  [][(currentTripIndex' = currentTripIndex
        /\ currentJourneyPath' = currentJourneyPath) => ~RunRestarted]_vars

C9_ZoomLadder ==
  Len(currentJourneyPath) = 2 =>
    LET s == LegSpread(currentJourneyPath) IN
      /\ zoom \in 3..8
      /\ (s > Degrees(50)) => zoom = 3
      /\ (Degrees(20) < s /\ s <= Degrees(50)) => zoom = 4
      /\ (Degrees(10) < s /\ s <= Degrees(20)) => zoom = 5
      /\ (Degrees(5) < s /\ s <= Degrees(10)) => zoom = 6
      /\ (Degrees(2) < s /\ s <= Degrees(5)) => zoom = 7
      /\ (s <= Degrees(2)) => zoom = 8

\* A leg whose spread is exactly 20 degrees is shown at zoom 5.
C9_Witness ==
  /\ Len(currentJourneyPath) = 2
  /\ LegSpread(currentJourneyPath) = Degrees(20)
  /\ zoom = 5

\* C10: from one rendered leg to the next, a larger spread never gets a
\* larger zoom (and a smaller spread never a smaller zoom).
C10_ZoomMonotone ==
  [][(Len(currentJourneyPath) = 2 /\ Len(currentJourneyPath') = 2) =>
       /\ LegSpread(currentJourneyPath) < LegSpread(currentJourneyPath') => zoom >= zoom'
       /\ LegSpread(currentJourneyPath) > LegSpread(currentJourneyPath') => zoom <= zoom']_vars

\* A leg spread over more than 50 degrees is shown at the widest zoom.
C10_Witness ==
  /\ Len(currentJourneyPath) = 2
  /\ LegSpread(currentJourneyPath) > Degrees(50)
  /\ zoom = 3

\* The trip with its departure and arrival exchanged.
Reversed(trip) ==
  [trip EXCEPT !.departureLocation = trip.arrivalLocation,
               !.arrivalLocation = trip.departureLocation]

\* C11: for an empty journey the view is the default one, centre
\* (39.8283, -98.5795) and zoom 4, whatever the cursor is.
C11_EmptyJourneyDefault ==
  Len(trips) = 0 =>
    /\ center = << E4(398283), E4(0 - 985795) >>
    /\ zoom = 4

\* An empty journey rendered with a cursor that is not 0.
C11_Witness ==
  /\ Len(trips) = 0
  /\ currentTripIndex = 1
  /\ zoom = 4

IsPoint(c) == Len(c) = 2 /\ c[1] \in Int /\ c[2] \in Int

\* C13: for every journey and every integer cursor the resolver answers no leg
\* or a leg of two points, no leg when the cursor designates no trip, the view
\* is a point and a zoom of the ladder (or the default), and no run exists
\* while no leg is resolved.
C13_SafeFallbacks ==
  /\ \/ currentJourneyPath = << >>
     \/ /\ Len(currentJourneyPath) = 2
        /\ IsPoint(currentJourneyPath[1]) /\ IsPoint(currentJourneyPath[2])
  /\ ~CursorOnTrip => currentJourneyPath = << >>
  /\ IsPoint(center)
  /\ zoom \in 3..8
  /\ Len(currentJourneyPath) = 0 => current = << >>

\* The map is ready on a journey whose cursor is past its end: no leg, the
\* fallback view, no run.
C13_Witness ==
  /\ L /\ mapInstance
  /\ Len(trips) > 0
  /\ currentTripIndex >= Len(trips)
  /\ currentJourneyPath = << >>
  /\ current = << >>
  /\ zoom = 8

\* C14: the resolver answers no leg for an empty journey.
C14_EmptyJourneyNoLeg ==
  Len(trips) = 0 => currentJourneyPath = << >>

\* An empty journey rendered with cursor 0.
C14_Witness ==
  /\ Len(trips) = 0
  /\ currentTripIndex = 0
  /\ currentJourneyPath = << >>

\* C15: the centre of a resolved leg is the mean of its two end points in
\* latitude and in longitude, and the leg of the reversed trip has the same
\* centre.
C15_CenterIsMean ==
  Len(currentJourneyPath) = 2 =>
    /\ 2 * center[1] = currentJourneyPath[1][1] + currentJourneyPath[2][1]
    /\ 2 * center[2] = currentJourneyPath[1][2] + currentJourneyPath[2][2]
    /\ (Len(trips) = 1 /\ currentTripIndex = 0) =>
         getMapBounds(<< Reversed(trips[1]) >>, 0).center = center

\* A leg whose end lies south-east of its start, centred between the two.
C15_Witness ==
  /\ Len(currentJourneyPath) = 2
  /\ Len(trips) = 1
  /\ currentJourneyPath[1][1] > currentJourneyPath[2][1]
  /\ currentJourneyPath[1][2] < currentJourneyPath[2][2]
  /\ center[1] < currentJourneyPath[1][1] /\ center[1] > currentJourneyPath[2][1]
  /\ center[2] > currentJourneyPath[1][2] /\ center[2] < currentJourneyPath[2][2]

\* C16: the run the effect holds keeps its polyline on the map; its marker is
\* off the map only once progress has reached 1 and the settle timer has run;
\* a callback of it leads from the start timer or a frame to a frame or, at
\* progress 1, to the settle timer of 800 ms, and only the settle timer's
\* callback, once due, removes the marker and leaves the run idle.
C16_PhaseOrder ==
  /\ [](current # << >> =>
         /\ current[1].polylineOnMap
         /\ ~current[1].markerOnMap =>
              /\ current[1].animationProgress = animationDuration
              /\ current[1].pending = "none")
  /\ [][CallbackFires =>
         /\ current[1].pending \in {"start", "frame"} =>
              /\ current'[1].pending \in {"frame", "settle"}
              /\ current'[1].markerOnMap = current[1].markerOnMap
         /\ current'[1].pending = "settle" =>
              /\ current'[1].animationProgress = animationDuration
              /\ current'[1].delay = settleDelay
         /\ current[1].pending = "settle" =>
              /\ current[1].delay = 0
              /\ current'[1].pending = "none"
              /\ ~current'[1].markerOnMap
              /\ current'[1].polylineLatLngs = current[1].polylineLatLngs]_vars

\* A run that has settled: the marker is gone, the whole leg stays drawn.
C16_Witness ==
  /\ current # << >>
  /\ current[1].pending = "none"
  /\ ~current[1].markerOnMap
  /\ current[1].polylineOnMap
  /\ current[1].polylineLatLngs = << current[1].startCoords, current[1].endCoords >>
  /\ current[1].startCoords # current[1].endCoords

\* C17 (as claimed): the progress of a run is within [0, 1], a tick never
\* lowers it, and a tick leaves a frame pending exactly when its progress is
\* below 1.
C17_ProgressClamped ==
  /\ [](current # << >> =>
         /\ 0 <= current[1].animationProgress
         /\ current[1].animationProgress <= animationDuration)
  /\ [][(CallbackFires /\ current[1].pending \in {"start", "frame"}) =>
         /\ current'[1].animationProgress >= current[1].animationProgress
         /\ current'[1].pending = "frame" <=>
              current'[1].animationProgress < animationDuration]_vars

\* C18: the marker is at start + (end - start) * progress in latitude and in
\* longitude, the polyline runs from start to the marker's point, and the
\* point is the start at progress 0 and the end at progress 1.
C18_Interpolation ==
  current # << >> =>
    LET run == current[1] IN
      /\ \A k \in 1..2 :
           animationDuration * (run.markerLatLng[k] - run.startCoords[k])
             = (run.endCoords[k] - run.startCoords[k]) * run.animationProgress
      /\ run.polylineLatLngs = << run.startCoords, run.markerLatLng >>
      /\ run.animationProgress = 0 => run.markerLatLng = run.startCoords
      /\ run.animationProgress = animationDuration => run.markerLatLng = run.endCoords

\* A tick half way through a leg that goes somewhere.
C18_Witness ==
  /\ current # << >>
  /\ current[1].pending = "frame"
  /\ 2 * current[1].animationProgress = animationDuration
  /\ current[1].markerLatLng # current[1].startCoords
  /\ current[1].markerLatLng # current[1].endCoords

RunDone(run) ==
  /\ run.animationProgress = animationDuration
  /\ run.pending = "none"
  /\ ~run.markerOnMap

\* C19: with the props unchanged, due callbacks delivered and time passing,
\* a started run reaches progress 1, has no callback left and its marker is
\* removed.
C19_RunCompletes ==
  (current # << >>) ~> (current # << >> /\ RunDone(current[1]))

\* A run of the sample journey's second leg has completed.
C19_Witness ==
  /\ current # << >>
  /\ RunDone(current[1])
  /\ trips = sampleTrips
  /\ currentTripIndex = 1

\* C20 (as claimed): the run of a leg whose start is its end never moves the
\* marker or the polyline off the start point and never has a frame pending:
\* it is over at once.
C20_DegenerateCompletesAtOnce ==
  (current # << >> /\ current[1].startCoords = current[1].endCoords) =>
    /\ current[1].markerLatLng = current[1].startCoords
    /\ current[1].polylineLatLngs = << current[1].startCoords, current[1].startCoords >>
    /\ current[1].pending # "frame"

\* C21 (as claimed): in the hook as in LeafletMap, the settle timer is armed
\* when progress has reached 1 (2500 ms) and runs for the same 800 ms.
C21_SameSettleDelay ==
  [][(current # << >> /\ current' # << >>
        /\ current[1].pending # "settle" /\ current'[1].pending = "settle") =>
       /\ current'[1].animationProgress = animationDuration
       /\ current'[1].delay = settleDelay]_vars

\* C22: the marker's rotation is the angle of atan2(delta longitude, delta
\* latitude) of the run's end points, and no callback of the run changes it.
C22_RotationConstant ==
  /\ [](current # << >> =>
         current[1].rotation =
           Atan2(current[1].endCoords[2] - current[1].startCoords[2],
                 current[1].endCoords[1] - current[1].startCoords[1]))
  /\ [][CallbackFires => current'[1].rotation = current[1].rotation]_vars

\* A run towards the south-east has reached its end with the rotation it
\* started with.
C22_Witness ==
  /\ current # << >>
  /\ current[1].pending = "settle"
  /\ current[1].markerLatLng = current[1].endCoords
  /\ current[1].rotation[1] > 0
  /\ current[1].rotation[2] < 0

\* C23 (as claimed): while autoplay runs alone, the cursor moves only by the
\* interval's callback, one index at a time and never past the last index,
\* and once it is on the last trip isPlaying becomes false.
C23_AutoplayStops ==
  /\ [][(isPlaying /\ currentTripIndex' # currentTripIndex) =>
         /\ interval = 0
         /\ currentTripIndex' = currentTripIndex + 1
         /\ currentTripIndex' <= Len(trips) - 1]_vars
  /\ (isPlaying /\ currentTripIndex = Len(trips) - 1) ~> ~isPlaying

\* C24 (as claimed): with the map ready, every change of the cursor or of the
\* trip list leaves the map on the viewport computed for the new journey and
\* cursor, the default viewport of an emptied journey included.
C24_ViewFollowsProps ==
  [][(L /\ mapInstance /\ <<trips, currentTripIndex>>' # <<trips, currentTripIndex>>) =>
       mapView' = << getMapBounds(trips', currentTripIndex') >>]_vars

\* A trip without its display order.
Unordered(trip) == [trip EXCEPT !.order = 0]

\* C25: a delete (the only step that shortens the list) removes the trip under
\* the cursor and nothing else, the others keep their relative order; the
\* cursor keeps its index when the deleted trip was not the last, and becomes
\* max(0, n - 2) when it was.
C25_DeleteCurrent ==
  [][Len(trips') < Len(trips) =>
       LET n == Len(trips)
           i == currentTripIndex
       IN /\ Len(trips') = n - 1
          /\ \A k \in 1..(n - 1) :
               Unordered(trips'[k]) = Unordered(trips[IF k <= i THEN k ELSE k + 1])
          /\ currentTripIndex' = IF i < n - 1 THEN i ELSE Max2(0, n - 2)]_vars

\* The first sample trip was deleted: the cursor stayed on 0 and is now on the
\* trip that followed.
C25_Witness ==
  /\ added = 0
  /\ Len(trips) = 1
  /\ trips[1].id = 2
  /\ currentTripIndex = 0

\* C26: the trip at list position k (from 1) has order k.
C26_OrderIsPosition == \A k \in 1..Len(trips) : trips[k].order = k

\* The first sample trip was deleted and a trip was added: orders 1 and 2
\* belong to the second sample trip and to the new one.
C26_Witness ==
  /\ added = 1
  /\ Len(trips) = 2
  /\ trips[1].id = 2 /\ trips[1].order = 1
  /\ trips[2].id = 3 /\ trips[2].order = 2

\* C27: an add puts the new trip at the end, leaves the trips that were there
\* as they were, and moves the cursor to the new trip.
C27_AddAppends ==
  [][added' = added + 1 =>
       /\ Len(trips') = Len(trips) + 1
       /\ SubSeq(trips', 1, Len(trips)) = trips
       /\ trips'[Len(trips')].id = NewTripId
       /\ currentTripIndex' = Len(trips)]_vars

\* A trip was added to the two sample trips and is the current one.
C27_Witness ==
  /\ added = 1
  /\ Len(trips) = 3
  /\ trips[1].id = 1 /\ trips[2].id = 2 /\ trips[3].id = 3
  /\ currentTripIndex = 2
  /\ ~isAddTripModalOpen

\* C28 (as claimed): once the typing has stopped, timers have fired and
\* requests are answered, both searching flags are false and stay false.
C28_SearchingEnds == <>[](\A field \in Fields : ~isSearching[field])

\* C29 (as claimed): while a field's query stays the same, suggestions that
\* are the results of that query are not replaced.
C29_LatestQueryWins ==
  [][\A field \in Fields :
       (/\ Len(query[field]) >= 2
        /\ suggestions[field] = searchCities(query[field], TRUE)
        /\ query'[field] = query[field])
       => suggestions'[field] = suggestions[field]]_vars

\* The form has a title, both dates, both cities and a traveler.
Complete(form) ==
  /\ form.title # "" /\ form.startDate # "" /\ form.endDate # ""
  /\ form.departureLocation.city # "" /\ form.arrivalLocation.city # ""
  /\ form.travelers # << >>

\* C30: a submit hands the form to onAddTrip exactly when the form is
\* complete (the trip is added and the modal closes); a submit of an
\* incomplete form changes neither the form nor the trips and leaves the
\* modal open; and a trip is only ever added from a complete form.
C30_SubmitValidation ==
  /\ [][handleSubmit =>
          IF Complete(formData)
            THEN /\ added' = added + 1
                 /\ Len(trips') = Len(trips) + 1
                 /\ ~isAddTripModalOpen'
            ELSE /\ alerted'
                 /\ UNCHANGED <<formData, trips, added, isAddTripModalOpen>>]_vars
  /\ [][added' # added => Complete(formData)]_vars
  /\ [][alerted' # alerted =>
          ~Complete(formData) /\ UNCHANGED <<formData, trips, added, isAddTripModalOpen>>]_vars

\* A form with everything but a traveler was submitted and rejected: it is
\* still there, in the open modal, and no trip was added.
C30_Witness ==
  /\ alerted
  /\ isAddTripModalOpen
  /\ added = 0
  /\ trips = sampleTrips
  /\ formData.title # "" /\ formData.startDate # "" /\ formData.endDate # ""
  /\ formData.departureLocation.city = "Las Vegas"
  /\ formData.arrivalLocation.city = "Houston"
  /\ formData.travelers = << >>

====
